---- MODULE Spec2Model ----
(***************************************************************************)
(* A model of geopy/adapters.py: the URLLibAdapter and RequestsAdapter     *)
(* HTTP adapters, their error classification, and the                      *)
(* RequestsHTTPWithSSLContextAdapter TLS-context binding.                  *)
(*                                                                         *)
(* Text is a sequence of code points, a body a sequence of byte values, a  *)
(* message a sequence of words.  Python's None is the string "None" where  *)
(* the field is a name, <<-1>> where it is a text and 0 where it is a      *)
(* status code.                                                            *)
(***************************************************************************)
EXTENDS Integers, Sequences, FiniteSets, TLC

VARIABLES requests_available, adapter_cls, ctor, init_result, opener, session,
          last, del_result, teardowns,
          urllib3_version, tls, warnings_emitted, binds, pool, conn,
          max_retries, error_wait_seconds, no_retries_for_hosts, wrap,
          inst, thr

vars == <<requests_available, adapter_cls, ctor, init_result, opener, session,
          last, del_result, teardowns,
          urllib3_version, tls, warnings_emitted, binds, pool, conn,
          max_retries, error_wait_seconds, no_retries_for_hosts, wrap,
          inst, thr>>

\* test/conftest.py: the retry wrapper of the test suite
retryVars == <<max_retries, error_wait_seconds, no_retries_for_hosts, wrap>>

\* one RequestsHTTPWithSSLContextAdapter shared by several threads
threadVars == <<inst, thr>>

adapterVars == <<requests_available, adapter_cls, ctor, init_result, opener,
                 session, last, del_result, teardowns>>

tlsVars == <<urllib3_version, tls, warnings_emitted, binds, pool, conn>>

----------------------------------------------------------------------------
(* Bounds of the model *)

MaxBodyLen == 4
MaxMsgLen == 2
MaxTeardowns == 2
MaxPooled == 1
MaxBinds == 2

----------------------------------------------------------------------------
(* Values *)

None == "None"
NoText == <<-1>>
NoValue == [tag |-> "none", n |-> 0, s |-> <<>>]

\* byte values: '"' and the two bytes of UTF-8 "e acute" (0xC3 0xA9)
Bytes == {34, 195, 169}
Bodies == UNION {[1..n -> Bytes] : n \in 0..MaxBodyLen}

Words == {"timed", "out", "unreachable"}
Msgs == UNION {[1..n -> Words] : n \in 0..MaxMsgLen}

\* charsets a Content-Type header can advertise
Charsets == {None, "utf-8", "latin-1", "x-unknown"}
KnownCodecs == {"utf-8", "latin-1"}

StatusCodes == {200, 400, 404}
HTTPErrorCodes == {304, 400, 404}

Contexts == {None, "ctxA", "ctxB"}

NoProxies == [isNone |-> TRUE, map |-> {}]
ProxyConfigs == {NoProxies,
                 [isNone |-> FALSE, map |-> {}],
                 [isNone |-> FALSE, map |-> {<<"https", "proxy:8080">>}]}
\* the proxies the process environment (HTTP_PROXY, ...) advertises
EnvProxies == {<<"http", "envproxy:3128">>}

----------------------------------------------------------------------------
(* Exception classes and isinstance *)

MRO(cls) ==
  CASE cls = "HTTPError" -> {"HTTPError", "URLError", "OSError", "Exception"}
    [] cls = "URLError" -> {"URLError", "OSError", "Exception"}
    [] cls = "SocketTimeout" -> {"SocketTimeout", "OSError", "Exception"}
    [] cls = "SSLError" -> {"SSLError", "OSError", "Exception"}
    [] cls = "OSError" -> {"OSError", "Exception"}
    [] cls = "ConnectionError" ->
         {"ConnectionError", "RequestException", "OSError", "Exception"}
    [] cls = "ConnectTimeout" ->
         {"ConnectTimeout", "ConnectionError", "Timeout", "RequestException",
          "OSError", "Exception"}
    [] cls = "ReadTimeout" ->
         {"ReadTimeout", "Timeout", "RequestException", "OSError", "Exception"}
    [] cls = "RequestsSSLError" ->
         {"RequestsSSLError", "ConnectionError", "RequestException", "OSError",
          "Exception"}
    [] cls = "TooManyRedirects" ->
         {"TooManyRedirects", "RequestException", "OSError", "Exception"}
    [] cls = "UnicodeDecodeError" ->
         {"UnicodeDecodeError", "ValueError", "Exception"}
    [] cls = "JSONDecodeError" -> {"JSONDecodeError", "ValueError", "Exception"}
    [] cls = "LookupError" -> {"LookupError", "Exception"}
    [] OTHER -> {cls, "Exception"}

IsInstance(cls, base) == base \in MRO(cls)

\* "pat in message": pat occurs as a contiguous run of message
Contains(message, pat) ==
  \E i \in 0..(Len(message) - Len(pat)) :
    \A j \in 1..Len(pat) : message[i + j] = pat[j]

TimedOutPat == <<"timed", "out">>
UnreachablePat == <<"unreachable">>

----------------------------------------------------------------------------
(* str(bytes, encoding) and json.loads *)

RECURSIVE Utf8Decode(_, _, _)
\* decodes b from index i on; replace = TRUE is errors="replace".
\* Covers one-byte and two-byte sequences, the only ones Bytes can form.
Utf8Decode(b, i, replace) ==
  IF i > Len(b) THEN [ok |-> TRUE, text |-> <<>>]
  ELSE IF b[i] < 128
    THEN LET r == Utf8Decode(b, i + 1, replace)
         IN [ok |-> r.ok, text |-> <<b[i]>> \o r.text]
  ELSE IF b[i] \in 194..223 /\ i + 1 <= Len(b) /\ b[i + 1] \in 128..191
    THEN LET r == Utf8Decode(b, i + 2, replace)
         IN [ok |-> r.ok,
             text |-> <<(b[i] - 192) * 64 + (b[i + 1] - 128)>> \o r.text]
  ELSE IF replace
    THEN LET r == Utf8Decode(b, i + 1, replace)
         IN [ok |-> r.ok, text |-> <<65533>> \o r.text]
  ELSE [ok |-> FALSE, text |-> <<>>]

\* latin-1 maps every byte to the code point of the same number
Latin1Decode(b) == [i \in 1..Len(b) |-> b[i]]

\* str(body_bytes, encoding=encoding): strict decoding
StrDecode(b, encoding) ==
  IF encoding \notin KnownCodecs
    THEN [exc |-> "LookupError", text |-> NoText]
  ELSE IF encoding = "latin-1"
    THEN [exc |-> "none", text |-> Latin1Decode(b)]
  ELSE LET r == Utf8Decode(b, 1, FALSE)
       IN IF r.ok THEN [exc |-> "none", text |-> r.text]
          ELSE [exc |-> "UnicodeDecodeError", text |-> NoText]

\* str(content, encoding, errors="replace")
StrDecodeReplace(b, encoding) ==
  IF encoding = None THEN [exc |-> "TypeError", text |-> NoText]
  ELSE IF encoding \notin KnownCodecs
    THEN [exc |-> "LookupError", text |-> NoText]
  ELSE IF encoding = "latin-1"
    THEN [exc |-> "none", text |-> Latin1Decode(b)]
  ELSE [exc |-> "none", text |-> Utf8Decode(b, 1, TRUE).text]

RECURSIVE DigitsValue(_, _)
DigitsValue(t, n) ==
  IF n = 0 THEN 0 ELSE DigitsValue(t, n - 1) * 10 + (t[n] - 48)

\* json.loads(text) for the documents the code points of Bytes can spell:
\* an integer without leading zero, or a string without escapes
JsonLoads(t) ==
  IF Len(t) >= 1 /\ (\A i \in 1..Len(t) : t[i] \in 48..57)
       /\ (Len(t) = 1 \/ t[1] # 48)
    THEN [exc |-> "none",
          value |-> [tag |-> "int", n |-> DigitsValue(t, Len(t)), s |-> <<>>]]
  ELSE IF Len(t) >= 2 /\ t[1] = 34 /\ t[Len(t)] = 34
            /\ (\A i \in 2..(Len(t) - 1) : t[i] # 34 /\ t[i] # 92 /\ t[i] >= 32)
    THEN [exc |-> "none",
          value |-> [tag |-> "str", n |-> 0, s |-> SubSeq(t, 2, Len(t) - 1)]]
  ELSE [exc |-> "JSONDecodeError", value |-> NoValue]

----------------------------------------------------------------------------
(* What the opener / the session answers to one GET, and what a call yields *)

NetResult(raised, cls, args, str, code, charset, apparent, read_fails, body) ==
  [raised |-> raised, cls |-> cls, args |-> args, str |-> str, code |-> code,
   charset |-> charset, apparent |-> apparent, read_fails |-> read_fails,
   body |-> body]

NoNet == NetResult(FALSE, "none", <<>>, <<>>, 0, None, None, FALSE, <<>>)

\* a readable body, or a body whose read() raises
PageBodies == {<<f, b>> \in BOOLEAN \X Bodies : f => b = <<>>}

\* urlopen returned a response object
URLLibPages ==
  {NetResult(FALSE, "none", <<>>, <<>>, c, cs, None, fb[1], fb[2]) :
     c \in StatusCodes, cs \in Charsets, fb \in PageBodies}

\* urlopen raised HTTPError (args is empty, str is "HTTP Error <code>: ...")
URLLibHTTPErrors ==
  {NetResult(TRUE, "HTTPError", <<>>, <<"HTTP", "Error">>, c, cs, None,
             fb[1], fb[2]) :
     c \in HTTPErrorCodes, cs \in Charsets, fb \in PageBodies}

URLLibErrorClasses == {"URLError", "SocketTimeout", "SSLError", "OSError"}

\* urlopen raised before a response was obtained; with one argument str(error)
\* is str(args[0]), with none it is whatever __str__ gives
URLLibFailures ==
  {NetResult(TRUE, cls, a, m, 0, None, None, FALSE, <<>>) :
     cls \in URLLibErrorClasses, a \in {<<>>} \cup {<<m2>> : m2 \in Msgs},
     m \in Msgs}

URLLibNet ==
  URLLibPages \cup URLLibHTTPErrors
    \cup {n \in URLLibFailures : Len(n.args) > 0 => n.str = n.args[1]}

RequestsErrorClasses ==
  {"SocketTimeout", "SSLError", "ConnectionError", "ConnectTimeout",
   "ReadTimeout", "RequestsSSLError", "TooManyRedirects", "OSError"}

\* session.get returned a Response: encoding is the charset of the headers,
\* apparent the detector's guess, consulted only when encoding is None
RequestsResponses ==
  {NetResult(FALSE, "none", <<>>, <<>>, c, ea[1], ea[2], FALSE, b) :
     c \in StatusCodes,
     ea \in {x \in Charsets \X (KnownCodecs \cup {None}) :
               x[1] # None => x[2] = None},
     b \in Bodies}

RequestsFailures ==
  {NetResult(TRUE, cls, <<>>, m, 0, None, None, FALSE, <<>>) :
     cls \in RequestsErrorClasses, m \in Msgs}

RequestsNet == RequestsResponses \cup RequestsFailures

Outcome(kind, exc, message, detail, status_code, text, value) ==
  [kind |-> kind, exc |-> exc, message |-> message, detail |-> detail,
   status_code |-> status_code, text |-> text, value |-> value, gets |-> 0]

Raise(exc, message) == Outcome("raise", exc, message, NoText, 0, NoText, NoValue)

\* an exception of the platform that no handler translated
Leak(exc) == Raise(exc, <<>>)

RaiseHTTP(message, status_code, text) ==
  Outcome("raise", "AdapterHTTPError", message, NoText, status_code, text,
          NoValue)

ReturnText(text) == Outcome("return", "none", <<>>, NoText, 0, text, NoValue)

ReturnJson(value) == Outcome("return", "none", <<>>, NoText, 0, NoText, value)

NoOutcome == Outcome("none", "none", <<>>, NoText, 0, NoText, NoValue)

ParseErrorWords == <<"Could", "not", "deserialize", "using", "deserializer:">>

----------------------------------------------------------------------------
(* URLLibAdapter *)

\* URLLibAdapter._decode_page
DecodePage(page) ==
  LET encoding == IF page.charset # None THEN page.charset ELSE "utf-8"
      d == StrDecode(page.body, encoding)
  IN IF page.read_fails
       THEN Raise("GeocoderServiceError",
                  <<"Unable", "to", "read", "the", "response">>)
     ELSE IF d.exc = "none" THEN ReturnText(d.text)
     ELSE IF IsInstance(d.exc, "ValueError")
       THEN Raise("GeocoderParseError",
                  <<"Unable", "to", "decode", "the", "response", "bytes">>)
     ELSE Leak(d.exc)

\* URLLibAdapter._read_http_error_body
ReadHttpErrorBody(error) ==
  LET d == DecodePage(error)
  IN IF d.kind = "return" THEN d.text ELSE NoText

\* URLLibClassify with the message tests made before the type tests
URLLibClassifyFlat(error) ==
  LET message == IF Len(error.args) > 0 THEN error.args[1] ELSE error.str
  IN IF IsInstance(error.cls, "HTTPError")
       THEN RaiseHTTP(message, error.code, NoText)
     ELSE IF Contains(message, TimedOutPat)
       THEN Raise("GeocoderTimedOut", <<"Service", "timed", "out">>)
     ELSE IF Contains(message, UnreachablePat)
       THEN Raise("GeocoderUnavailable", <<"Service", "not", "available">>)
     ELSE IF IsInstance(error.cls, "SocketTimeout")
       THEN Raise("GeocoderTimedOut", <<"Service", "timed", "out">>)
     ELSE Raise("GeocoderServiceError", message)

\* the except branch of URLLibAdapter.get_text
URLLibClassify(error) ==
  LET message == IF Len(error.args) > 0 THEN error.args[1] ELSE error.str
  IN IF IsInstance(error.cls, "HTTPError")
       THEN RaiseHTTP(message, error.code, ReadHttpErrorBody(error))
     ELSE IF IsInstance(error.cls, "URLError")
       THEN IF Contains(message, TimedOutPat)
              THEN Raise("GeocoderTimedOut", <<"Service", "timed", "out">>)
            ELSE IF Contains(message, UnreachablePat)
              THEN Raise("GeocoderUnavailable", <<"Service", "not", "available">>)
            ELSE Raise("GeocoderServiceError", message)
     ELSE IF IsInstance(error.cls, "SocketTimeout")
       THEN Raise("GeocoderTimedOut", <<"Service", "timed", "out">>)
     ELSE IF IsInstance(error.cls, "SSLError")
       THEN IF Contains(message, TimedOutPat)
              THEN Raise("GeocoderTimedOut", <<"Service", "timed", "out">>)
            ELSE Raise("GeocoderServiceError", message)
     ELSE Raise("GeocoderServiceError", message)

\* the else branch of URLLibAdapter.get_text
URLLibPage(page) ==
  LET d == DecodePage(page)
  IN IF d.kind = "raise" THEN d
     ELSE IF page.code >= 400
       THEN RaiseHTTP(<<"Non-successful", "status", "code">>, page.code, d.text)
     ELSE ReturnText(d.text)

\* URLLibAdapter.get_text: one self.urlopen(req, timeout=timeout)
URLLibGetText(net) ==
  [(IF net.raised THEN URLLibClassify(net) ELSE URLLibPage(net))
     EXCEPT !.gets = 1]

\* URLLibAdapter.get_json
URLLibGetJson(net) ==
  LET t == URLLibGetText(net)
      j == JsonLoads(t.text)
  IN IF t.kind = "raise" THEN t
     ELSE IF j.exc = "none" THEN [ReturnJson(j.value) EXCEPT !.gets = t.gets]
     ELSE IF IsInstance(j.exc, "ValueError")
       THEN [Outcome("raise", "GeocoderParseError", ParseErrorWords, t.text, 0,
                     NoText, NoValue) EXCEPT !.gets = t.gets]
     ELSE [Leak(j.exc) EXCEPT !.gets = t.gets]

\* ProxyHandler(proxies): None means the proxies of the environment
ProxyHandler(proxies) == IF proxies.isNone THEN EnvProxies ELSE proxies.map

NoOpener == [built |-> FALSE, context |-> None, proxies |-> {}]

\* URLLibAdapter.__init__
URLLibInit(proxies, ssl_context) ==
  [built |-> TRUE, context |-> ssl_context, proxies |-> ProxyHandler(proxies)]

----------------------------------------------------------------------------
(* RequestsAdapter *)

\* resp.text: never raises, undecodable bytes become U+FFFD
ResponseText(resp) ==
  LET encoding == IF resp.charset = None THEN resp.apparent ELSE resp.charset
      d == StrDecodeReplace(resp.body, encoding)
  IN IF resp.body = <<>> THEN <<>>
     ELSE IF d.exc \in {"LookupError", "TypeError"}
       THEN Utf8Decode(resp.body, 1, TRUE).text
     ELSE d.text

\* guess_json_utf: "utf-8" unless the first four bytes hold a BOM or a zero
GuessJsonUtf(content) ==
  IF \A i \in 1..Len(content) : i <= 4 => content[i] \notin {0, 239, 254, 255}
    THEN "utf-8" ELSE "utf-16/32"

\* resp.json(): with no declared encoding and more than three bytes the
\* content is decoded with the guessed UTF codec, otherwise resp.text is parsed
ResponseJson(resp) ==
  LET d == StrDecode(resp.body, GuessJsonUtf(resp.body))
  IN IF resp.charset = None /\ Len(resp.body) > 3
          /\ d.exc # "UnicodeDecodeError"
       THEN JsonLoads(d.text)
     ELSE JsonLoads(ResponseText(resp))

\* the except branch of RequestsAdapter._request
RequestsClassify(error) ==
  LET message == error.str
  IN IF IsInstance(error.cls, "SocketTimeout")
       THEN Raise("GeocoderTimedOut", <<"Service", "timed", "out">>)
     ELSE IF IsInstance(error.cls, "SSLError")
       THEN IF Contains(message, TimedOutPat)
              THEN Raise("GeocoderTimedOut", <<"Service", "timed", "out">>)
            ELSE Raise("GeocoderServiceError", message)
     ELSE IF IsInstance(error.cls, "ConnectionError")
       THEN Raise("GeocoderUnavailable", message)
     ELSE IF IsInstance(error.cls, "Timeout")
       THEN Raise("GeocoderTimedOut", <<"Service", "timed", "out">>)
     ELSE Raise("GeocoderServiceError", message)

\* RequestsRequest with a second session.get after a failed one
RequestsRequestRetrying(net) ==
  [(IF net.raised THEN RequestsClassify(net)
    ELSE IF net.code >= 400
      THEN RaiseHTTP(<<"Non-successful", "status", "code">>, net.code,
                     ResponseText(net))
    ELSE ReturnText(ResponseText(net)))
     EXCEPT !.gets = IF net.raised THEN 2 ELSE 1]

\* RequestsAdapter._request: one self.session.get(...); a "return" outcome
\* stands for the Response handed back to get_text / get_json
RequestsRequest(net) ==
  [(IF net.raised THEN RequestsClassify(net)
    ELSE IF net.code >= 400
      THEN RaiseHTTP(<<"Non-successful", "status", "code">>, net.code,
                     ResponseText(net))
    ELSE ReturnText(ResponseText(net)))
     EXCEPT !.gets = 1]

\* RequestsAdapter.get_text
RequestsGetText(net) == RequestsRequest(net)

\* RequestsAdapter.get_json
RequestsGetJson(net) ==
  LET r == RequestsRequest(net)
      j == ResponseJson(net)
  IN IF r.kind = "raise" THEN r
     ELSE IF j.exc = "none" THEN [ReturnJson(j.value) EXCEPT !.gets = r.gets]
     ELSE IF IsInstance(j.exc, "ValueError")
       THEN [Outcome("raise", "GeocoderParseError", ParseErrorWords,
                     ResponseText(net), 0, NoText, NoValue)
               EXCEPT !.gets = r.gets]
     ELSE [Leak(j.exc) EXCEPT !.gets = r.gets]

NoSession ==
  [exists |-> FALSE, trust_env |-> TRUE, proxies |-> NoProxies,
   https_context |-> None, pooled |-> 0]

\* RequestsInit without the trust_env assignment
RequestsInitTrustEnv(available, proxies, ssl_context) ==
  IF ~available
    THEN [result |-> "ImportError", session |-> NoSession]
  ELSE [result |-> "ok",
        session |-> [exists |-> TRUE, trust_env |-> TRUE, proxies |-> proxies,
                     https_context |-> ssl_context, pooled |-> 0]]

\* RequestsAdapter.__init__
RequestsInit(available, proxies, ssl_context) ==
  IF ~available
    THEN [result |-> "ImportError", session |-> NoSession]
  ELSE [result |-> "ok",
        session |-> [exists |-> TRUE,
                     trust_env |-> IF ~proxies.isNone THEN FALSE ELSE TRUE,
                     proxies |-> proxies,
                     https_context |-> ssl_context,
                     pooled |-> 0]]

\* RequestsAdapter.__del__
RequestsDel(s) ==
  IF ~s.exists
    THEN [result |-> "AttributeError", session |-> s]
  ELSE [result |-> "ok", session |-> [s EXCEPT !.pooled = 0]]

\* the proxies a URLLibAdapter request goes through
OpenerProxiesInEffect(o) == o.proxies

\* the proxies a session request goes through: with trust_env the proxies of
\* the environment are merged over the session's
SessionProxiesInEffect(s) ==
  IF s.trust_env
    THEN EnvProxies \cup
           {p \in s.proxies.map : \A e \in EnvProxies : e[1] # p[1]}
  ELSE s.proxies.map

----------------------------------------------------------------------------
(* RequestsHTTPWithSSLContextAdapter *)

Instances == {1, 2}

Digits == <<"0", "1", "2", "3", "4", "5", "6", "7", "8", "9">>
IsDigit(c) == \E d \in 1..10 : Digits[d] = c
DigitVal(c) == (CHOOSE d \in 1..10 : Digits[d] = c) - 1

\* urllib3.__version__.split('.'): a version is its sequence of components,
\* a component its sequence of characters
Versions ==
  { << <<"1">>, <<"2", "4">>, <<"1">> >>,
    << <<"1">>, <<"2", "4">>, <<"2">> >>,
    << <<"1">>, <<"2", "4">>, <<"3">> >>,
    << <<"1">>, <<"2", "4">> >>,
    << <<"1">>, <<"2", "4">>, <<"2">>, <<"1">> >>,
    << <<"1">>, <<"2", "5">> >>,
    << <<"0">>, <<"9">> >>,
    << <<"2">>, <<"0">>, <<"0", "a", "1">> >>,
    << <<"1">>, <<"2", "5", "r", "c", "1">> >>,
    << <<"d", "e", "v">> >>,
    << <<"2">> >> }

RECURSIVE IntOf(_, _)
IntOf(s, n) == IF n = 0 THEN 0 ELSE IntOf(s, n - 1) * 10 + DigitVal(s[n])

\* silent_int
silent_int(s) ==
  IF Len(s) > 0 /\ \A i \in 1..Len(s) : IsDigit(s[i])
    THEN IntOf(s, Len(s)) ELSE 0

\* version = tuple(silent_int(v) for v in urllib3.__version__.split('.'))
ParseVersion(v) == [i \in 1..Len(v) |-> silent_int(v[i])]

RECURSIVE TupleLess(_, _, _)
\* Python's a < b on tuples of integers, compared from index i on
TupleLess(a, b, i) ==
  IF i > Len(a) THEN i <= Len(b)
  ELSE IF i > Len(b) THEN FALSE
  ELSE IF a[i] # b[i] THEN a[i] < b[i]
  ELSE TupleLess(a, b, i + 1)

MinUrllib3 == <<1, 24, 2>>

\* WarnIfOldUrllib3 with one flag for the whole class
WarnIfOldUrllib3Global(t, w, i, version) ==
  IF \E k \in DOMAIN t : t[k].urllib3_warned
    THEN [tls |-> [t EXCEPT ![i].urllib3_warned = TRUE], warnings |-> w]
  ELSE [tls |-> [t EXCEPT ![i].urllib3_warned = TRUE],
        warnings |-> IF TupleLess(ParseVersion(version), MinUrllib3, 1)
                       THEN [w EXCEPT ![i] = @ + 1] ELSE w]

\* RequestsHTTPWithSSLContextAdapter.__warn_if_old_urllib3, for instance i:
\* the new flags and warning counts
WarnIfOldUrllib3(t, w, i, version) ==
  IF t[i].urllib3_warned THEN [tls |-> t, warnings |-> w]
  ELSE [tls |-> [t EXCEPT ![i].urllib3_warned = TRUE],
        warnings |-> IF TupleLess(ParseVersion(version), MinUrllib3, 1)
                       THEN [w EXCEPT ![i] = @ + 1] ELSE w]

\* PoolKwargs without the assignment of the instance's context
PoolKwargsPassThrough(t, i, kwarg) == kwarg

\* the ssl_context keyword the pool manager is built with: init_poolmanager
\* and proxy_manager_for overwrite it when the instance has a context
PoolKwargs(t, i, kwarg) ==
  IF t[i].ssl_context # None THEN t[i].ssl_context ELSE kwarg

\* what the keyword arguments of the caller say about ssl_context
KwargContexts == {"absent", "ctxB"}

CertPaths == {None, "/etc/ca.pem", "/etc/certs"}

\* what HTTPAdapter.cert_verify leaves on the connection, when it returns
SuperConns ==
  {c \in [ca_certs : CertPaths, ca_cert_dir : CertPaths,
          cert_file : {None, "client.pem"}, key_file : {None, "client.key"}] :
     /\ c.ca_certs \in {None, "/etc/ca.pem"}
     /\ c.ca_cert_dir \in {None, "/etc/certs"}
     /\ c.ca_certs = None \/ c.ca_cert_dir = None
     /\ c.key_file # None => c.cert_file # None}

NoConn ==
  [inst |-> 0, called |-> FALSE, raised |-> FALSE,
   super |-> [ca_certs |-> None, ca_cert_dir |-> None, cert_file |-> None,
              key_file |-> None],
   now |-> [ca_certs |-> None, ca_cert_dir |-> None, cert_file |-> None,
            key_file |-> None]]

\* RequestsHTTPWithSSLContextAdapter.cert_verify, after super().cert_verify
\* has left c on the connection
CertVerifyFields(t, i, c) ==
  IF t[i].ssl_context # None
    THEN [ca_certs |-> None, ca_cert_dir |-> None, cert_file |-> None,
          key_file |-> None]
  ELSE c

NoPool == [inst |-> 0, kind |-> "none", kwarg |-> "absent",
           ssl_context |-> "absent"]

----------------------------------------------------------------------------
(* State and actions of the two adapters *)

Idle == [op |-> "none", net |-> NoNet, out |-> NoOutcome]

NoTls == [constructed |-> FALSE, ssl_context |-> None, urllib3_warned |-> FALSE]

InitAdapterVars ==
  /\ adapter_cls = "none"
  /\ ctor = [proxies |-> NoProxies, ssl_context |-> None]
  /\ init_result = "none"
  /\ opener = NoOpener
  /\ session = NoSession
  /\ last = Idle
  /\ del_result = "none"
  /\ teardowns = 0

InitTlsVars ==
  /\ tls = [i \in Instances |-> NoTls]
  /\ warnings_emitted = [i \in Instances |-> 0]
  /\ binds = [i \in Instances |-> 0]
  /\ pool = NoPool
  /\ conn = NoConn

\* no attempt made yet
NoAttempt == [kind |-> "none", exc |-> "none", status_code |-> 0, resp |-> None]

NoWrap ==
  [pc |-> "idle", proxies |-> NoProxies, netloc |-> None, retries |-> 0,
   i |-> 0, attempts |-> 0, retried |-> 0, attempt |-> NoAttempt,
   result |-> NoAttempt]

InitRetryVars ==
  /\ max_retries = 2
  /\ error_wait_seconds = 3
  /\ no_retries_for_hosts = {""}
  /\ wrap = NoWrap

NoThread == [pc |-> "idle", op |-> "none", calls |-> 0]

InitThreadVars ==
  /\ inst = [constructed |-> FALSE, ssl_context |-> None,
             urllib3_warned |-> FALSE, warnings |-> 0]
  /\ thr = <<NoThread>>

Init ==
  /\ requests_available \in BOOLEAN
  /\ InitAdapterVars
  /\ urllib3_version = << <<"2">> >>
  /\ InitTlsVars
  /\ InitRetryVars
  /\ InitThreadVars

\* URLLibAdapter(proxies=..., ssl_context=...)
ConstructURLLib ==
  \E proxies \in ProxyConfigs, ssl_context \in {None, "ctxA"} :
    /\ adapter_cls = "none"
    /\ adapter_cls' = "URLLibAdapter"
    /\ ctor' = [proxies |-> proxies, ssl_context |-> ssl_context]
    /\ opener' = URLLibInit(proxies, ssl_context)
    /\ init_result' = "ok"
    /\ UNCHANGED <<requests_available, session, last, del_result, teardowns>>
    /\ UNCHANGED <<tlsVars, retryVars, threadVars>>

\* RequestsAdapter(proxies=..., ssl_context=...)
ConstructRequests ==
  \E proxies \in ProxyConfigs, ssl_context \in {None, "ctxA"} :
    /\ adapter_cls = "none"
    /\ adapter_cls' = "RequestsAdapter"
    /\ ctor' = [proxies |-> proxies, ssl_context |-> ssl_context]
    /\ init_result' = RequestsInit(requests_available, proxies, ssl_context).result
    /\ session' = RequestsInit(requests_available, proxies, ssl_context).session
    /\ UNCHANGED <<requests_available, opener, last, del_result, teardowns>>
    /\ UNCHANGED <<tlsVars, retryVars, threadVars>>

Usable(cls) ==
  /\ adapter_cls = cls
  /\ init_result = "ok"
  /\ teardowns = 0
  /\ last = Idle

URLLibAdapterGetText ==
  /\ Usable("URLLibAdapter")
  /\ \E net \in URLLibNet :
    /\ last' = [op |-> "get_text", net |-> net, out |-> URLLibGetText(net)]
    /\ UNCHANGED <<requests_available, adapter_cls, ctor, init_result, opener,
                   session, del_result, teardowns>>
    /\ UNCHANGED <<tlsVars, retryVars, threadVars>>

URLLibAdapterGetJson ==
  /\ Usable("URLLibAdapter")
  /\ \E net \in URLLibNet :
    /\ last' = [op |-> "get_json", net |-> net, out |-> URLLibGetJson(net)]
    /\ UNCHANGED <<requests_available, adapter_cls, ctor, init_result, opener,
                   session, del_result, teardowns>>
    /\ UNCHANGED <<tlsVars, retryVars, threadVars>>

\* a received response leaves its keep-alive connection in the session's pool
Pooled(s, net) ==
  IF net.raised \/ s.pooled >= MaxPooled THEN s
  ELSE [s EXCEPT !.pooled = @ + 1]

RequestsAdapterGetText ==
  /\ Usable("RequestsAdapter")
  /\ \E net \in RequestsNet :
    /\ last' = [op |-> "get_text", net |-> net, out |-> RequestsGetText(net)]
    /\ session' = Pooled(session, net)
    /\ UNCHANGED <<requests_available, adapter_cls, ctor, init_result, opener,
                   del_result, teardowns>>
    /\ UNCHANGED <<tlsVars, retryVars, threadVars>>

RequestsAdapterGetJson ==
  /\ Usable("RequestsAdapter")
  /\ \E net \in RequestsNet :
    /\ last' = [op |-> "get_json", net |-> net, out |-> RequestsGetJson(net)]
    /\ session' = Pooled(session, net)
    /\ UNCHANGED <<requests_available, adapter_cls, ctor, init_result, opener,
                   del_result, teardowns>>
    /\ UNCHANGED <<tlsVars, retryVars, threadVars>>

\* the caller takes the value or the error of the finished call
Consume ==
  /\ last # Idle
  /\ last' = Idle
  /\ UNCHANGED <<requests_available, adapter_cls, ctor, init_result, opener,
                 session, del_result, teardowns>>
  /\ UNCHANGED <<tlsVars, retryVars, threadVars>>

\* the instance is discarded: RequestsAdapter.__del__ runs, also on an instance
\* whose __init__ raised
RequestsAdapterDel ==
  /\ adapter_cls = "RequestsAdapter"
  /\ last = Idle
  /\ teardowns < MaxTeardowns
  /\ teardowns' = teardowns + 1
  /\ del_result' = RequestsDel(session).result
  /\ session' = RequestsDel(session).session
  /\ UNCHANGED <<requests_available, adapter_cls, ctor, init_result, opener,
                 last>>
  /\ UNCHANGED <<tlsVars, retryVars, threadVars>>

Next ==
  \/ ConstructURLLib
  \/ ConstructRequests
  \/ URLLibAdapterGetText
  \/ URLLibAdapterGetJson
  \/ RequestsAdapterGetText
  \/ RequestsAdapterGetJson
  \/ Consume
  \/ RequestsAdapterDel

Spec == Init /\ [][Next]_vars

----------------------------------------------------------------------------
(* State and actions of RequestsHTTPWithSSLContextAdapter *)

InitTLS ==
  /\ requests_available = TRUE
  /\ InitAdapterVars
  /\ urllib3_version \in Versions
  /\ InitTlsVars
  /\ InitRetryVars
  /\ InitThreadVars

\* init_poolmanager(*args, **kwargs) on instance i whose fields are t[i]
InitPoolManagerOn(t, i, kwarg) ==
  LET r == IF t[i].ssl_context # None
             THEN WarnIfOldUrllib3(t, warnings_emitted, i, urllib3_version)
           ELSE [tls |-> t, warnings |-> warnings_emitted]
  IN /\ binds[i] < MaxBinds
     /\ tls' = r.tls
     /\ warnings_emitted' = r.warnings
     /\ binds' = [binds EXCEPT ![i] = @ + 1]
     /\ pool' = [inst |-> i, kind |-> "direct", kwarg |-> kwarg,
                 ssl_context |-> PoolKwargs(t, i, kwarg)]
     /\ conn' = NoConn
     /\ UNCHANGED <<urllib3_version>>
     /\ UNCHANGED <<adapterVars, retryVars, threadVars>>

\* RequestsHTTPWithSSLContextAdapter(ssl_context=...): HTTPAdapter.__init__
\* builds the direct pool manager through init_poolmanager
TLSConstruct ==
  \E i \in Instances, ssl_context \in Contexts :
    /\ ~tls[i].constructed
    /\ InitPoolManagerOn(
         [tls EXCEPT ![i] = [constructed |-> TRUE, ssl_context |-> ssl_context,
                             urllib3_warned |-> FALSE]],
         i, "absent")

InitPoolManager ==
  \E i \in Instances, kwarg \in KwargContexts :
    /\ tls[i].constructed
    /\ InitPoolManagerOn(tls, i, kwarg)

ProxyManagerFor ==
  \E i \in Instances, kwarg \in KwargContexts :
    LET r == IF tls[i].ssl_context # None
               THEN WarnIfOldUrllib3(tls, warnings_emitted, i, urllib3_version)
             ELSE [tls |-> tls, warnings |-> warnings_emitted]
    IN /\ tls[i].constructed
       /\ binds[i] < MaxBinds
       /\ tls' = r.tls
       /\ warnings_emitted' = r.warnings
       /\ binds' = [binds EXCEPT ![i] = @ + 1]
       /\ pool' = [inst |-> i, kind |-> "proxy", kwarg |-> kwarg,
                   ssl_context |-> PoolKwargs(tls, i, kwarg)]
       /\ conn' = NoConn
       /\ UNCHANGED <<urllib3_version>>
       /\ UNCHANGED <<adapterVars, retryVars, threadVars>>

\* cert_verify(conn, url, verify, cert) on a connection of the pool built
\* last: super().cert_verify leaves c on the connection and may raise before
\* the override's own lines run
CertVerify ==
  \E i \in Instances, c \in SuperConns, raised \in BOOLEAN :
    /\ tls[i].constructed
    /\ pool.inst = i
    /\ conn' = [inst |-> i, called |-> TRUE, raised |-> raised, super |-> c,
                now |-> IF raised THEN c ELSE CertVerifyFields(tls, i, c)]
    /\ UNCHANGED <<urllib3_version, tls, warnings_emitted, binds, pool>>
    /\ UNCHANGED <<adapterVars, retryVars, threadVars>>

NextTLS ==
  \/ TLSConstruct
  \/ InitPoolManager
  \/ ProxyManagerFor
  \/ CertVerify

SpecTLS == InitTLS /\ [][NextTLS]_vars

----------------------------------------------------------------------------
(* Properties *)

FiveErrorKinds ==
  {"AdapterHTTPError", "GeocoderTimedOut", "GeocoderUnavailable",
   "GeocoderParseError", "GeocoderServiceError"}

Called == last.op # "none"

\* the message the URLLibAdapter handler works with
FailureMessage(e) == IF Len(e.args) > 0 THEN e.args[1] ELSE e.str

\* C1: for both adapters a get_text or get_json call returns a value or raises
\* one of the five error kinds; no other exception type reaches the caller.
C1_OnlyTheFiveErrorKinds ==
  Called =>
    \/ last.out.kind = "return" /\ last.out.exc = "none"
    \/ last.out.kind = "raise" /\ last.out.exc \in FiveErrorKinds

\* C2: in RequestsAdapter every timeout condition (connect or read deadline,
\* also one that is a connection failure as well) is GeocoderTimedOut, a TLS
\* error saying "timed out" is GeocoderTimedOut, a connection failure that is
\* not a timeout is GeocoderUnavailable with the message, every other failure
\* is GeocoderServiceError with the message.
C2_TimeoutsAreTimedOut ==
  (Called /\ adapter_cls = "RequestsAdapter" /\ last.net.raised) =>
    LET e == last.net
        isTimeout == IsInstance(e.cls, "Timeout")
                       \/ IsInstance(e.cls, "SocketTimeout")
        expected ==
          IF isTimeout THEN "GeocoderTimedOut"
          ELSE IF IsInstance(e.cls, "SSLError") /\ Contains(e.str, TimedOutPat)
            THEN "GeocoderTimedOut"
          ELSE IF IsInstance(e.cls, "ConnectionError") THEN "GeocoderUnavailable"
          ELSE "GeocoderServiceError"
    IN /\ last.out.kind = "raise"
       /\ last.out.exc = expected
       /\ expected \in {"GeocoderUnavailable", "GeocoderServiceError"}
            => last.out.message = e.str

URLLibFailed ==
  /\ adapter_cls = "URLLibAdapter"
  /\ last.op = "get_text"
  /\ last.net.raised
  /\ last.net.cls # "HTTPError"

ErrorStatusReceived ==
  /\ last.op = "get_text"
  /\ last.net.code >= 400
  /\ \/ adapter_cls = "RequestsAdapter" /\ ~last.net.raised
     \/ adapter_cls = "URLLibAdapter"
          /\ (~last.net.raised \/ last.net.cls = "HTTPError")

\* C4: for both adapters a response with status >= 400 makes get_text raise
\* AdapterHTTPError with that status code and the decoded body; in
\* URLLibAdapter a body that cannot be read or decoded leaves the error in
\* place, with an absent body, on every path.
C4_HTTPErrorNeverMasked ==
  ErrorStatusReceived =>
    LET r == last.net
        d == StrDecode(r.body, IF r.charset # None THEN r.charset ELSE "utf-8")
        body == IF adapter_cls = "RequestsAdapter" THEN ResponseText(r)
                ELSE IF ~r.read_fails /\ d.exc = "none" THEN d.text
                ELSE NoText
    IN /\ last.out.kind = "raise"
       /\ last.out.exc = "AdapterHTTPError"
       /\ last.out.status_code = r.code
       /\ last.out.text = body

\* C5: for both adapters get_json is get_text followed by a JSON parse: the
\* same error kind when get_text fails, the parsed value when the text is
\* JSON, GeocoderParseError with the raw text otherwise.
C5_GetJsonIsGetTextThenParse ==
  (Called /\ last.op = "get_json") =>
    LET t == IF adapter_cls = "RequestsAdapter" THEN RequestsGetText(last.net)
             ELSE URLLibGetText(last.net)
        j == JsonLoads(t.text)
    IN IF t.kind = "raise"
         THEN last.out.kind = "raise" /\ last.out.exc = t.exc
       ELSE IF j.exc = "none"
         THEN last.out.kind = "return" /\ last.out.value = j.value
       ELSE /\ last.out.kind = "raise"
            /\ last.out.exc = "GeocoderParseError"
            /\ last.out.detail = t.text

BelowMinUrllib3(v) ==
  LET p == ParseVersion(v)
  IN \/ Len(p) = 0
     \/ p[1] < 1
     \/ p[1] = 1 /\ (Len(p) = 1 \/ p[2] < 24)
     \/ p[1] = 1 /\ Len(p) >= 2 /\ p[2] = 24 /\ (Len(p) = 2 \/ p[3] < 2)

\* C7: per instance the old-urllib3 warning is emitted at most once: on the
\* first pool-building call that binds a non-null TLS context iff the parsed
\* version is below (1, 24, 2), never without a context, and one instance's
\* warning does not suppress another's.
C7_WarnedOncePerInstance ==
  \A i \in Instances :
    warnings_emitted[i] =
      IF tls[i].ssl_context # None /\ binds[i] >= 1
           /\ BelowMinUrllib3(urllib3_version)
        THEN 1 ELSE 0

\* both instances have bound a context, one of them twice, and each has
\* emitted its own warning
C7_Witness ==
  /\ \A i \in Instances : tls[i].ssl_context # None /\ warnings_emitted[i] = 1
  /\ \E i \in Instances : binds[i] >= 2

C9_ConfigurationFixed ==
  (init_result = "ok" /\ ~ctor.proxies.isNone) =>
    IF adapter_cls = "URLLibAdapter"
      THEN /\ OpenerProxiesInEffect(opener) = ctor.proxies.map
           /\ OpenerProxiesInEffect(opener) \cap EnvProxies = {}
           /\ opener.context = ctor.ssl_context
    ELSE /\ SessionProxiesInEffect(session) = ctor.proxies.map
         /\ SessionProxiesInEffect(session) \cap EnvProxies = {}
         /\ session.proxies = ctor.proxies
         /\ session.https_context = ctor.ssl_context

\* a RequestsAdapter built with the empty mapping and a context has had a
\* call fail
C9_Witness ==
  /\ adapter_cls = "RequestsAdapter"
  /\ ~ctor.proxies.isNone /\ ctor.proxies.map = {}
  /\ ctor.ssl_context = "ctxA"
  /\ Called /\ last.out.kind = "raise"
  /\ session.pooled > 0

\* C10: teardown of a RequestsAdapter releases the pooled connections and
\* never raises, whatever the lifecycle state of the instance, also when its
\* construction raised ImportError before a session was created, and also the
\* second time.
C10_TeardownNeverRaises ==
  teardowns > 0 => del_result = "ok" /\ session.pooled = 0

----------------------------------------------------------------------------
(* test/conftest.py: AdapterProxy._wrapped_get *)

MaxRetries == 2

Hosts == {"a.example", "b.example"}
Responses == {"resp1", "resp2"}

\* retry_status_codes = (429,)
retry_status_codes == {429}

AttemptStatusCodes == {404, 429, 500}

\* what one do_request() yields: a response, an AdapterHTTPError, or another
\* Exception
AttemptOutcomes ==
  {[kind |-> "return", exc |-> "none", status_code |-> 0, resp |-> r] :
     r \in Responses}
    \cup {[kind |-> "raise", exc |-> "AdapterHTTPError", status_code |-> c,
           resp |-> None] : c \in AttemptStatusCodes}
    \cup {[kind |-> "raise", exc |-> e, status_code |-> 0, resp |-> None] :
            e \in {"GeocoderTimedOut", "GeocoderServiceError"}}

RaiseOf(exc) ==
  [kind |-> "raise", exc |-> exc, status_code |-> 0, resp |-> None]

\* is_proxied = bool(self.proxies)
is_proxied(proxies) == ~proxies.isNone /\ proxies.map # {}

\* the retries of one call: max_retries, or 0 for a proxied adapter or a host
\* of no_retries_for_hosts
RetriesOf(proxies, netloc, mr, hosts) ==
  IF is_proxied(proxies) \/ netloc \in hosts THEN 0 ELSE mr

\* _wrapped_get up to the first iteration of `for i in range(retries + 1)`;
\* an empty range falls through to the final raise
WrappedGetEnter(w, netloc, mr, hosts) ==
  LET retries == RetriesOf(w.proxies, netloc, mr, hosts)
  IN IF retries + 1 > 0
       THEN [w EXCEPT !.pc = "attempt", !.netloc = netloc, !.retries = retries,
                      !.i = 0]
     ELSE [w EXCEPT !.pc = "done", !.netloc = netloc, !.retries = retries,
                    !.result = RaiseOf("RuntimeError")]

\* one iteration of the loop, do_request() having yielded o: return, re-raise,
\* or record_retry, sleep and go on; the loop running out is the final raise
WrappedGetIteration(w, o, wait) ==
  LET ends ==
        \/ o.kind = "return"
        \/ o.exc = "AdapterHTTPError"
             /\ (w.i = w.retries \/ o.status_code \notin retry_status_codes)
        \/ o.kind = "raise" /\ o.exc # "AdapterHTTPError" /\ w.i = w.retries
      tried == [w EXCEPT !.attempts = @ + 1, !.attempt = o]
  IN IF ends THEN [tried EXCEPT !.pc = "done", !.result = o]
     ELSE IF wait < 0
       THEN [tried EXCEPT !.pc = "done", !.retried = @ + 1,
                          !.result = RaiseOf("ValueError")]
     ELSE IF w.i + 1 < w.retries + 1
       THEN [tried EXCEPT !.i = @ + 1, !.retried = @ + 1]
     ELSE [tried EXCEPT !.pc = "done", !.retried = @ + 1,
                        !.result = RaiseOf("RuntimeError")]

\* GEOPY_TEST_RETRIES, GEOPY_TEST_ERROR_WAIT_SECONDS and
\* GEOPY_TEST_NO_RETRIES_FOR_HOSTS are read with int(), float() and split(',')
InitRetry ==
  /\ requests_available = TRUE
  /\ InitAdapterVars
  /\ urllib3_version = << <<"2">> >>
  /\ InitTlsVars
  /\ InitThreadVars
  /\ max_retries \in -1..MaxRetries
  /\ error_wait_seconds \in {-1, 0, 3}
  /\ no_retries_for_hosts \in {{""}, {"a.example"}}
  /\ \E proxies \in ProxyConfigs : wrap = [NoWrap EXCEPT !.proxies = proxies]

\* AdapterProxy.get_json / get_text enter _wrapped_get(url, do_request)
WrappedGetCall ==
  /\ wrap.pc = "idle"
  /\ \E netloc \in Hosts :
       wrap' = WrappedGetEnter(wrap, netloc, max_retries, no_retries_for_hosts)
  /\ UNCHANGED <<max_retries, error_wait_seconds, no_retries_for_hosts>>
  /\ UNCHANGED <<adapterVars, tlsVars, threadVars>>

WrappedGetAttempt ==
  /\ wrap.pc = "attempt"
  /\ \E o \in AttemptOutcomes :
       wrap' = WrappedGetIteration(wrap, o, error_wait_seconds)
  /\ UNCHANGED <<max_retries, error_wait_seconds, no_retries_for_hosts>>
  /\ UNCHANGED <<adapterVars, tlsVars, threadVars>>

\* the test takes the response or the error of the finished call
WrappedGetDone ==
  /\ wrap.pc = "done"
  /\ wrap' = [NoWrap EXCEPT !.proxies = wrap.proxies]
  /\ UNCHANGED <<max_retries, error_wait_seconds, no_retries_for_hosts>>
  /\ UNCHANGED <<adapterVars, tlsVars, threadVars>>

NextRetry ==
  \/ WrappedGetCall
  \/ WrappedGetAttempt
  \/ WrappedGetDone

SpecRetry == InitRetry /\ [][NextRetry]_vars

\* the retries the call is entitled to
C11_Retries ==
  IF is_proxied(wrap.proxies) \/ wrap.netloc \in no_retries_for_hosts
    THEN 0 ELSE max_retries

\* C11: _wrapped_get attempts the request at least once and at most
\* retries + 1 times (retries = 0 when proxied or for a no-retry host,
\* max_retries otherwise); an AdapterHTTPError whose status is not 429 ends
\* the call on that attempt and is never retried; the call ends by returning
\* the response or re-raising the error of the last attempt, never by the
\* final RuntimeError.
C11_RetryWrapperBounded ==
  /\ wrap.pc # "idle" => wrap.attempts <= C11_Retries + 1
  /\ wrap.pc = "done" =>
       /\ wrap.attempts >= 1
       /\ wrap.result = wrap.attempt
       /\ wrap.result.exc # "RuntimeError"
  /\ (wrap.attempt.exc = "AdapterHTTPError"
        /\ wrap.attempt.status_code \notin {429}) =>
       wrap.pc = "done" /\ wrap.result = wrap.attempt

\* the same, for the settings that are not negative
C11_BoundedWhenSettingsNonNegative ==
  (max_retries >= 0 /\ error_wait_seconds >= 0) => C11_RetryWrapperBounded

----------------------------------------------------------------------------
(* One RequestsHTTPWithSSLContextAdapter used by several threads: the flag  *)
(* test, the flag assignment and the version check of                       *)
(* __warn_if_old_urllib3 are separate steps of a thread                     *)

NumThreads == 2
MaxThreadCalls == 2

Threads == 1..NumThreads

ThreadVersions ==
  { << <<"1">>, <<"2", "4">>, <<"1">> >>,
    << <<"1">>, <<"2", "4">>, <<"2">> >>,
    << <<"1">>, <<"2", "5", "r", "c", "1">> >> }

\* `if self.__urllib3_warned: return`
FlagIsSet(a) == a.urllib3_warned

\* SetWarned without the assignment
SetWarnedForgotten(a) == a

\* `self.__urllib3_warned = True`
SetWarned(a) == [a EXCEPT !.urllib3_warned = TRUE]

\* the version check and warnings.warn
CheckVersion(a, version) ==
  IF TupleLess(ParseVersion(version), MinUrllib3, 1)
    THEN [a EXCEPT !.warnings = @ + 1] ELSE a

InitThreads ==
  /\ requests_available = TRUE
  /\ InitAdapterVars
  /\ urllib3_version \in ThreadVersions
  /\ InitTlsVars
  /\ InitRetryVars
  /\ inst = [constructed |-> FALSE, ssl_context |-> None,
             urllib3_warned |-> FALSE, warnings |-> 0]
  /\ thr = [t \in Threads |-> NoThread]

ThreadFrame ==
  /\ UNCHANGED <<adapterVars, retryVars>>
  /\ UNCHANGED <<urllib3_version, tls, warnings_emitted, binds, pool, conn>>

\* RequestsHTTPWithSSLContextAdapter(ssl_context=...) in the thread that
\* builds the RequestsAdapter: the two fields are assigned, then
\* super().__init__() enters init_poolmanager; no other thread has the
\* instance before __init__ returns
ThreadConstruct ==
  \E ssl_context \in {None, "ctxA"} :
    /\ ~inst.constructed
    /\ thr[1].pc = "idle"
    /\ inst' = [inst EXCEPT !.ssl_context = ssl_context,
                            !.urllib3_warned = FALSE]
    /\ thr' = [thr EXCEPT ![1] = [pc |-> "bind", op |-> "__init__",
                                  calls |-> 0]]
    /\ ThreadFrame

\* a thread's request makes the session call init_poolmanager or
\* proxy_manager_for
ThreadEnter ==
  \E t \in Threads, op \in {"init_poolmanager", "proxy_manager_for"} :
    /\ inst.constructed
    /\ thr[t].pc = "idle"
    /\ thr[t].calls < MaxThreadCalls
    /\ thr' = [thr EXCEPT ![t].pc = "bind", ![t].op = op]
    /\ UNCHANGED inst
    /\ ThreadFrame

\* `if self.__ssl_context is not None:` and the call of __warn_if_old_urllib3
ThreadBind ==
  \E t \in Threads :
    /\ thr[t].pc = "bind"
    /\ thr' = [thr EXCEPT ![t].pc = IF inst.ssl_context # None
                                      THEN "test" ELSE "super"]
    /\ UNCHANGED inst
    /\ ThreadFrame

ThreadTestFlag ==
  \E t \in Threads :
    /\ thr[t].pc = "test"
    /\ thr' = [thr EXCEPT ![t].pc = IF FlagIsSet(inst) THEN "super" ELSE "set"]
    /\ UNCHANGED inst
    /\ ThreadFrame

ThreadSetFlag ==
  \E t \in Threads :
    /\ thr[t].pc = "set"
    /\ inst' = SetWarned(inst)
    /\ thr' = [thr EXCEPT ![t].pc = "check"]
    /\ ThreadFrame

ThreadCheckVersion ==
  \E t \in Threads :
    /\ thr[t].pc = "check"
    /\ inst' = CheckVersion(inst, urllib3_version)
    /\ thr' = [thr EXCEPT ![t].pc = "super"]
    /\ ThreadFrame

\* `return super().init_poolmanager(...)` / `super().proxy_manager_for(...)`;
\* the one of __init__ ends the construction
ThreadSuper ==
  \E t \in Threads :
    /\ thr[t].pc = "super"
    /\ inst' = IF thr[t].op = "__init__"
                 THEN [inst EXCEPT !.constructed = TRUE] ELSE inst
    /\ thr' = [thr EXCEPT ![t].pc = "idle",
                          ![t].calls = IF thr[t].op = "__init__" THEN @
                                       ELSE @ + 1]
    /\ ThreadFrame

NextThreads ==
  \/ ThreadConstruct
  \/ ThreadEnter
  \/ ThreadBind
  \/ ThreadTestFlag
  \/ ThreadSetFlag
  \/ ThreadCheckVersion
  \/ ThreadSuper

SpecThreads == InitThreads /\ [][NextThreads]_vars

\* C12: when threads sharing one RequestsAdapter reach
\* __warn_if_old_urllib3 at the same time, the old-urllib3 warning is
\* emitted at most once for the instance under every interleaving of the
\* flag test and the flag assignment.
C12_WarnedAtMostOnceAcrossThreads ==
  /\ inst.warnings <= 1
  /\ \A t \in Threads :
       thr[t].pc \in {"set", "check"} => thr[t].op = "__init__"

\* two threads are at the flag test of the same instance at once, one through
\* init_poolmanager and one through proxy_manager_for, and the one warning of
\* an old urllib3 has been emitted
C12_Witness ==
  /\ inst.warnings = 1
  /\ \E t, u \in Threads :
       /\ t # u
       /\ thr[t].pc = "test" /\ thr[t].op = "init_poolmanager"
       /\ thr[u].pc = "test" /\ thr[u].op = "proxy_manager_for"

====
